---- MODULE Spec2Model ----
(***************************************************************************)
(* The depend-info command of vcpkg (commands.dependinfo.cpp): the        *)
(* recursive construction of the dependency tree of the requested ports,  *)
(* and the plain, dot and dgml renderings.                                 *)
(*                                                                         *)
(* A port name is a sequence of character codes, so that the ordering of  *)
(* std::map<std::string, ...> and the replacement of '-' by '_' are        *)
(* computed on characters.  The text written to standard output is a      *)
(* sequence of statements, one record per formatted piece of text.         *)
(***************************************************************************)
EXTENDS Integers, Sequences, FiniteSets, TLC

\* ------------------------------------------------------------ bounds
\* Size of an input: ports + core dependencies + feature paragraphs +
\* feature dependencies + command arguments.
MaxSize == 5
\* Depth of the call stack at which a further call overflows it.
StackLimit == 6

\* ------------------------------------------------------------ names
Dash == 45
Underscore == 95

\* "a", "b" and "a-c"
Names == {<<97>>, <<98>>, <<97, Dash, 99>>}

OPTION_DOT == "--dot"
OPTION_DGML == "--dgml"

\* std::string operator< : lexicographic on the characters
RECURSIVE StringLess(_, _)
StringLess(a, b) ==
    IF Len(b) = 0 THEN FALSE
    ELSE IF Len(a) = 0 THEN TRUE
    ELSE IF a[1] # b[1] THEN a[1] < b[1]
    ELSE StringLess(Tail(a), Tail(b))

\* ------------------------------------------------------------ inputs
NameSeqs(maxLen) == UNION {[1..n -> Names] : n \in 0..maxLen}

\* The feature paragraphs of a port: each is the list of its dependencies.
RECURSIVE FeatureParagraphs(_)
FeatureParagraphs(w) ==
    IF w < 1 THEN {<<>>}
    ELSE {<<>>} \cup
         UNION {{<<d>> \o rest : rest \in FeatureParagraphs(w - 1 - Len(d))} :
                d \in NameSeqs(w - 1)}

RECURSIVE Weight(_)
Weight(fps) == IF fps = <<>> THEN 0 ELSE 1 + Len(Head(fps)) + Weight(Tail(fps))

SourceControlFile(n, deps, fps) ==
    [name |-> n, depends |-> deps, feature_paragraphs |-> fps]

\* The ports load_all_ports returns, in storage order: names are unique.
RECURSIVE Registries(_, _)
Registries(w, used) ==
    IF w < 1 THEN {<<>>}
    ELSE {<<>>} \cup
         UNION {UNION {UNION {
            {<<SourceControlFile(n, deps, fps)>> \o rest :
                rest \in Registries(w - 1 - Len(deps) - Weight(fps), used \cup {n})} :
            fps \in FeatureParagraphs(w - 1 - Len(deps))} :
            deps \in NameSeqs(w - 1)} :
            n \in Names \ used}

\* ------------------------------------------------------------ state
VARIABLES
    source_control_files,   \* the loaded ports, in storage order
    command_arguments,      \* the requested port names
    switches,               \* the switches given
    dependency_tree,        \* std::map: port name -> names of its dependencies
    stack,                  \* the active calls of build_dependency_tree
    port_file,              \* find_if's result in the running call
    child,                  \* position in port_source_paragraph.depends
    it,                     \* position of the printing loop
    out,                    \* what was printed
    pc,                     \* the statement to run next
    lookups,                \* per name, the number of find_if calls made
    expansions              \* per name, the number of times it was inserted

vars == <<source_control_files, command_arguments, switches, dependency_tree,
          stack, port_file, child, it, out, pc, lookups, expansions>>

\* One formatted piece of output: its kind, the names it carries (source, target,
\* or the joined list of a plain line) and the number it carries.
Statement(k, s, t, l, c) ==
    [kind |-> k, source |-> s, target |-> t, list |-> l, count |-> c]

\* ------------------------------------------------------------ closure
\* Util::Sets::contains(dependency_tree, dependency_name)
\*   (variant: the membership check always answers no)
ContainsNever(tree, name) == FALSE
Contains(tree, name) == name \in DOMAIN tree

\* Util::find_if: the first port of that name, or end()
\*   (variant: begin() instead of end() when no port has the name)
find_if_or_begin(files, name) ==
    IF \E k \in 1..Len(files) : files[k].name = name
    THEN CHOOSE k \in 1..Len(files) :
            /\ files[k].name = name
            /\ \A m \in 1..(k - 1) : files[m].name # name
    ELSE IF Len(files) >= 1 THEN 1 ELSE Len(files) + 1
find_if(files, name) ==
    IF \E k \in 1..Len(files) : files[k].name = name
    THEN CHOOSE k \in 1..Len(files) :
            /\ files[k].name = name
            /\ \A m \in 1..(k - 1) : files[m].name # name
    ELSE Len(files) + 1

\* port_file != source_control_files.end()
Found(files, pf) == pf # Len(files) + 1

\* dependency_tree[dependency_name] = {}
InsertEmpty(tree, name) ==
    [n \in DOMAIN tree \cup {name} |-> IF n = name THEN <<>> ELSE tree[n]]

\* dependency_tree[dependency_name].push_back(child_dependency.name())
\*   (variant: the name is put at the front)
push_front(tree, name, d) == [tree EXCEPT ![name] = <<d>> \o @]
push_back(tree, name, d) == [tree EXCEPT ![name] = Append(@, d)]

\* the range-for's step to the next name
\*   (variant: the loop is left after the first name)
SkipRest(i, len) == len + 1
NextName(i, len) == i + 1

\* the list the running call iterates: the arguments, or a value of the map
dependency_names(frame) ==
    IF frame.is_args THEN command_arguments ELSE dependency_tree[frame.key]

Top == stack[Len(stack)]
\* the element the loop of the running call stands at
Element == dependency_names(Top)[Top.i]
\* the name the loop variable of the running call is bound to
dependency_name == Top.name
Frame(a, k) == [is_args |-> a, key |-> k, i |-> 1, name |-> <<>>]
Advance(frame) ==
    [frame EXCEPT !.i = NextName(@, Len(dependency_names(frame))), !.name = <<>>]
SetTop(frame) == [stack EXCEPT ![Len(stack)] = frame]

Init ==
    /\ \E r \in 0..MaxSize :
          /\ command_arguments \in [1..r -> Names]
          /\ source_control_files \in Registries(MaxSize - r, {})
    /\ switches \in SUBSET {OPTION_DOT, OPTION_DGML}
    /\ dependency_tree = <<>>
    /\ stack = <<>>
    /\ port_file = 0
    /\ child = 0
    /\ it = 1
    /\ out = <<>>
    /\ pc = "start"
    /\ lookups = [n \in Names |-> 0]
    /\ expansions = [n \in Names |-> 0]

\* perform_and_exit: the arguments are parsed, the ports loaded
Start ==
    /\ pc = "start"
    /\ IF Len(command_arguments) >= 1
       THEN /\ stack' = <<Frame(TRUE, <<>>)>>
            /\ pc' = "for"
       ELSE /\ stack' = stack
            /\ pc' = "all"
    /\ UNCHANGED <<source_control_files, command_arguments, switches,
                   dependency_tree, port_file, child, it, out, lookups, expansions>>

\* for (const auto& dependency_name : dependency_names) if (!contains(...))
ForEach ==
    /\ pc = "for"
    /\ Top.i <= Len(dependency_names(Top))
    /\ IF Contains(dependency_tree, Element)
       THEN /\ stack' = SetTop(Advance(Top))
            /\ pc' = "for"
       ELSE /\ stack' = SetTop([Top EXCEPT !.name = Element])
            /\ pc' = "find_if"
    /\ UNCHANGED <<source_control_files, command_arguments, switches,
                   dependency_tree, port_file, child, it, out, lookups, expansions>>

\* const auto port_file = Util::find_if(...); if (port_file != end())
FindPort ==
    /\ pc = "find_if"
    /\ lookups' = [lookups EXCEPT ![dependency_name] = @ + 1]
    /\ LET pf == find_if(source_control_files, dependency_name) IN
       IF Found(source_control_files, pf)
       THEN /\ port_file' = pf
            /\ stack' = stack
            /\ pc' = "insert"
       ELSE /\ port_file' = 0
            /\ stack' = SetTop(Advance(Top))
            /\ pc' = "for"
    /\ UNCHANGED <<source_control_files, command_arguments, switches,
                   dependency_tree, child, it, out, expansions>>

\* dependency_tree[dependency_name] = {};
Insert ==
    /\ pc = "insert"
    /\ dependency_tree' = InsertEmpty(dependency_tree, dependency_name)
    /\ expansions' = [expansions EXCEPT ![dependency_name] = @ + 1]
    /\ child' = 1
    /\ pc' = "push_back"
    /\ UNCHANGED <<source_control_files, command_arguments, switches,
                   stack, port_file, it, out, lookups>>

\* for (child_dependency : depends) dependency_tree[dependency_name].push_back(...)
PushBack ==
    /\ pc = "push_back"
    /\ LET depends == source_control_files[port_file].depends IN
       IF child <= Len(depends)
       THEN /\ dependency_tree' =
                   push_back(dependency_tree, dependency_name, depends[child])
            /\ child' = child + 1
            /\ pc' = "push_back"
       ELSE /\ dependency_tree' = dependency_tree
            /\ child' = 0
            /\ pc' = "recurse"
    /\ UNCHANGED <<source_control_files, command_arguments, switches,
                   stack, port_file, it, out, lookups, expansions>>

\* build_dependency_tree(dependency_tree, dependency_tree[dependency_name], ...)
Recurse ==
    /\ pc = "recurse"
    /\ IF Len(stack) >= StackLimit
       THEN /\ stack' = stack
            /\ pc' = "overflow"
       ELSE /\ stack' = Append(stack, Frame(FALSE, dependency_name))
            /\ pc' = "for"
    /\ port_file' = 0
    /\ UNCHANGED <<source_control_files, command_arguments, switches,
                   dependency_tree, child, it, out, lookups, expansions>>

\* the loop of a call ends: back in the caller, which steps to its next name
Return ==
    /\ pc = "for"
    /\ Top.i > Len(dependency_names(Top))
    /\ IF Len(stack) = 1
       THEN /\ stack' = <<>>
            /\ pc' = "built"
       ELSE /\ stack' = LET callers == SubSeq(stack, 1, Len(stack) - 1)
                            caller == callers[Len(callers)] IN
                        [callers EXCEPT ![Len(callers)] = Advance(caller)]
            /\ pc' = "for"
    /\ UNCHANGED <<source_control_files, command_arguments, switches,
                   dependency_tree, port_file, child, it, out, lookups, expansions>>

\* ------------------------------------------------------------ rendering
\* std::replace(output.begin(), output.end(), '-', '_')
\*   (variant: the copy is returned unchanged)
keep_dashes(input) == input
replace_dashes_with_underscore(input) ==
    [k \in 1..Len(input) |-> IF input[k] = Dash THEN Underscore ELSE input[k]]

\* Strings::format("%s;", name) and Strings::format("%s -> %s;", name, dependency_name)
DotNode(name) == Statement("node", name, <<>>, <<>>, 0)
DotEdge(name, dep_name) == Statement("edge", name, dep_name, <<>>, 0)

\* the loop of create_dot_as_string from port k on, s and empty_node_count so far
RECURSIVE DotLoop(_, _, _, _)
DotLoop(files, k, s, empty_node_count) ==
    IF k > Len(files) THEN [s |-> s, empty_node_count |-> empty_node_count]
    ELSE LET source_paragraph == files[k] IN
         IF source_paragraph.depends = <<>>
         THEN DotLoop(files, k + 1, s, empty_node_count + 1)
         ELSE LET name == replace_dashes_with_underscore(source_paragraph.name)
                  edges == [d \in 1..Len(source_paragraph.depends) |->
                              DotEdge(name, replace_dashes_with_underscore(
                                                source_paragraph.depends[d]))]
              IN DotLoop(files, k + 1, s \o <<DotNode(name)>> \o edges,
                         empty_node_count)

create_dot_as_string(files) ==
    LET r == DotLoop(files, 1, <<Statement("digraph", <<>>, <<>>, <<>>, 0)>>, 0)
    IN r.s \o <<Statement("empty", <<>>, <<>>, <<>>, r.empty_node_count)>>

\* Strings::format("<Node Id=...") and Strings::format("<Link Source=... Target=...")
DgmlNode(name) == Statement("Node", name, <<>>, <<>>, 0)
DgmlLink(name, target) == Statement("Link", name, target, <<>>, 0)

\* the links of the feature paragraphs of one port, paragraph by paragraph
\*   (variant: the feature paragraphs are not visited)
no_feature_links(name, feature_paragraphs) == <<>>
RECURSIVE feature_links(_, _)
feature_links(name, feature_paragraphs) ==
    IF feature_paragraphs = <<>> THEN <<>>
    ELSE LET depends == Head(feature_paragraphs) IN
         [d \in 1..Len(depends) |-> DgmlLink(name, depends[d])]
            \o feature_links(name, Tail(feature_paragraphs))

\* the loop of create_dgml_as_string from port k on, nodes and links so far
RECURSIVE DgmlLoop(_, _, _, _)
DgmlLoop(files, k, nodes, links) ==
    IF k > Len(files) THEN [nodes |-> nodes, links |-> links]
    ELSE LET name == files[k].name
             core == [d \in 1..Len(files[k].depends) |->
                        DgmlLink(name, files[k].depends[d])]
         IN DgmlLoop(files, k + 1, Append(nodes, DgmlNode(name)),
                     links \o core \o feature_links(name, files[k].feature_paragraphs))

Tag(k) == Statement(k, <<>>, <<>>, <<>>, 0)

create_dgml_as_string(files) ==
    LET r == DgmlLoop(files, 1, <<>>, <<>>) IN
    <<Tag("xml"), Tag("DirectedGraph"), Tag("Nodes")>> \o r.nodes
        \o <<Tag("/Nodes"), Tag("Links")>> \o r.links
        \o <<Tag("/Links"), Tag("/DirectedGraph")>>

create_graph_as_string(sw, files) ==
    IF OPTION_DOT \in sw THEN create_dot_as_string(files)
    ELSE IF OPTION_DGML \in sw THEN create_dgml_as_string(files)
    ELSE <<>>

\* std::map iterates its keys in ascending order: the k-th key
KeyAt(tree, k) ==
    CHOOSE n \in DOMAIN tree :
        Cardinality({m \in DOMAIN tree : StringLess(m, n)}) = k - 1

\* System::println("%s: %s", name, Strings::join(", ", names))
Line(name, names) == Statement("line", name, <<>>, names, 0)

\* the line of a port in the listing of all ports
\*   (variant: the dependencies of the features are joined in as well)
ListLineWithFeatures(scf) ==
    Line(scf.name, scf.depends \o
            [d \in 1..Len(feature_links(scf.name, scf.feature_paragraphs)) |->
                feature_links(scf.name, scf.feature_paragraphs)[d].target])
ListLine(scf) == Line(scf.name, scf.depends)

\* the graph that is printed when arguments and a switch are given
GraphInput(tree, files) == files

\* ------------------------------------------------------------ perform_and_exit
\* if (!options.switches.empty()) after build_dependency_tree: print the graph
GraphAfterBuild ==
    /\ pc = "built"
    /\ switches # {}
    /\ out' = create_graph_as_string(switches,
                  GraphInput(dependency_tree, source_control_files))
    /\ pc' = "done"
    /\ UNCHANGED <<source_control_files, command_arguments, switches,
                   dependency_tree, stack, port_file, child, it, lookups, expansions>>

\* for (const auto& dependency : dependency_tree) println
PrintTree ==
    /\ pc = "built"
    /\ switches = {}
    /\ IF it <= Cardinality(DOMAIN dependency_tree)
       THEN /\ out' = Append(out, Line(KeyAt(dependency_tree, it),
                                       dependency_tree[KeyAt(dependency_tree, it)]))
            /\ it' = it + 1
            /\ pc' = "built"
       ELSE /\ out' = out
            /\ it' = it
            /\ pc' = "exit"
    /\ UNCHANGED <<source_control_files, command_arguments, switches,
                   dependency_tree, stack, port_file, child, lookups, expansions>>

\* no argument, a switch: print the graph of all ports
GraphAll ==
    /\ pc = "all"
    /\ switches # {}
    /\ out' = create_graph_as_string(switches, source_control_files)
    /\ pc' = "done"
    /\ UNCHANGED <<source_control_files, command_arguments, switches,
                   dependency_tree, stack, port_file, child, it, lookups, expansions>>

\* no argument, no switch: for (auto&& source_control_file : source_control_files) println
ListAll ==
    /\ pc = "all"
    /\ switches = {}
    /\ IF it <= Len(source_control_files)
       THEN /\ out' = Append(out, ListLine(source_control_files[it]))
            /\ it' = it + 1
            /\ pc' = "all"
       ELSE /\ out' = out
            /\ it' = it
            /\ pc' = "exit"
    /\ UNCHANGED <<source_control_files, command_arguments, switches,
                   dependency_tree, stack, port_file, child, lookups, expansions>>

\* Checks::exit_success(VCPKG_LINE_INFO) at the end of perform_and_exit
Exit ==
    /\ pc = "exit"
    /\ pc' = "done"
    /\ UNCHANGED <<source_control_files, command_arguments, switches, dependency_tree,
                   stack, port_file, child, it, out, lookups, expansions>>

Next ==
    \/ Start \/ ForEach \/ FindPort \/ Insert \/ PushBack \/ Recurse \/ Return
    \/ GraphAfterBuild \/ PrintTree \/ GraphAll \/ ListAll \/ Exit

Spec == Init /\ [][Next]_vars

\* the process runs until it exits
FairSpec == Spec /\ WF_vars(Next)

\* ------------------------------------------------------------ properties
PortNames == {source_control_files[k].name : k \in 1..Len(source_control_files)}
AbsentNames == Names \ PortNames
CoreDepends(n) ==
    source_control_files[CHOOSE k \in 1..Len(source_control_files) :
                            source_control_files[k].name = n].depends
Elements(seq) == {seq[k] : k \in 1..Len(seq)}
Occurrences(seq, n) == Cardinality({k \in 1..Len(seq) : seq[k] = n})

\* the ports reachable from S along core dependencies that are ports
RECURSIVE ReachableFrom(_)
ReachableFrom(S) ==
    LET T == S \cup {d \in PortNames : \E p \in S : d \in Elements(CoreDepends(p))}
    IN IF T = S THEN S ELSE ReachableFrom(T)

\* build_dependency_tree has returned to perform_and_exit
BuildReturned == Len(command_arguments) >= 1 /\ pc \in {"built", "exit", "done"}

\* C1: when build_dependency_tree returns, the keys of the map are exactly the
\* ports reachable from the arguments along core dependencies through ports of
\* the registry, and each value is that port's core dependencies in declaration
\* order.
C1_ClosureIsReachable ==
    BuildReturned =>
        /\ DOMAIN dependency_tree = ReachableFrom(Elements(command_arguments) \cap PortNames)
        /\ \A n \in DOMAIN dependency_tree : dependency_tree[n] = CoreDepends(n)

\* a key that is no argument, a port that is no key, a value of two names
C1_Witness ==
    /\ BuildReturned
    /\ \E n \in DOMAIN dependency_tree : n \notin Elements(command_arguments)
    /\ \E n \in DOMAIN dependency_tree : Len(dependency_tree[n]) >= 1
    /\ PortNames \ DOMAIN dependency_tree # {}

\* C2: the command runs to its end on every registry, cyclic ones included, and
\* for a registry with the cycle a -> b -> a and the argument a the map then has
\* exactly the keys a and b with their dependency lists.
CycleOf(a, b) ==
    /\ a # b
    /\ CoreDepends(a) = <<b>>
    /\ CoreDepends(b) = <<a>>
    /\ command_arguments = <<a>>

C2_Terminates ==
    <>(/\ pc = "done"
       /\ \A a, b \in PortNames :
             CycleOf(a, b) =>
                /\ DOMAIN dependency_tree = {a, b}
                /\ dependency_tree[a] = <<b>>
                /\ dependency_tree[b] = <<a>>)

C2_Witness ==
    /\ pc = "done"
    /\ \E a, b \in PortNames : CycleOf(a, b) /\ DOMAIN dependency_tree = {a, b}

\* C3: a name that is no port is never a key, in any state; meeting it does not
\* end the run, and the ports among the other arguments and dependencies are
\* expanded all the same.
C3_AbsentNamesSkipped ==
    /\ DOMAIN dependency_tree \subseteq PortNames
    /\ pc # "overflow"
    /\ BuildReturned =>
          /\ Elements(command_arguments) \cap PortNames \subseteq DOMAIN dependency_tree
          /\ \A n \in DOMAIN dependency_tree :
                Elements(dependency_tree[n]) \cap PortNames \subseteq DOMAIN dependency_tree

\* an absent argument was met, and a port after it was expanded
C3_Witness ==
    /\ BuildReturned
    /\ \E i, j \in 1..Len(command_arguments) :
          /\ i < j
          /\ command_arguments[i] \in AbsentNames
          /\ lookups[command_arguments[i]] >= 1
          /\ command_arguments[j] \in DOMAIN dependency_tree

\* the value of key n is complete: n is a key and is not the name being filled
Filled(n) ==
    /\ n \in DOMAIN dependency_tree
    /\ ~(pc \in {"push_back", "recurse"} /\ dependency_name = n)

\* C9: a port is expanded at most once in a run; it is inserted only when the
\* membership check found it absent; a key stays a key, and its value does not
\* change once it is complete and the recursion on it begins.
C9_ExpandedOnce ==
    [][/\ \A n \in Names : expansions'[n] <= 1
       /\ \A n \in Names : expansions'[n] > expansions[n] => n \notin DOMAIN dependency_tree
       /\ \A n \in DOMAIN dependency_tree :
             /\ n \in DOMAIN dependency_tree'
             /\ Filled(n) => dependency_tree'[n] = dependency_tree[n]
       /\ pc' # "overflow"]_vars

\* a name that is already a key is met again
C9_Witness ==
    /\ pc = "for"
    /\ Top.i <= Len(dependency_names(Top))
    /\ Element \in DOMAIN dependency_tree

RECURSIVE OccurrencesInValues(_, _, _)
OccurrencesInValues(tree, keys, n) ==
    IF keys = {} THEN 0
    ELSE LET k == CHOOSE k \in keys : TRUE IN
         Occurrences(tree[k], n) + OccurrencesInValues(tree, keys \ {k}, n)

\* C10 as stated: the registry is searched at most once for a name it does not hold.
C10_AbsentLookedUpOnce == \A n \in AbsentNames : lookups[n] <= 1

\* C10 as amended: a name that is no port is never inserted, and the registry is
\* searched for it once for each of its occurrences among the arguments and the
\* dependency lists of the expanded ports; for a port it is searched at most once.
C10_AbsentLookedUpPerOccurrence ==
    /\ \A n \in AbsentNames : n \notin DOMAIN dependency_tree /\ expansions[n] = 0
    /\ \A n \in PortNames : lookups[n] <= 1
    /\ BuildReturned =>
          \A n \in AbsentNames :
             lookups[n] = Occurrences(command_arguments, n)
                + OccurrencesInValues(dependency_tree, DOMAIN dependency_tree, n)

\* an absent name was searched twice, once as an argument and once as a dependency
C10_Witness ==
    /\ BuildReturned
    /\ \E n \in AbsentNames :
          /\ lookups[n] >= 2
          /\ n \in Elements(command_arguments)
          /\ \E k \in DOMAIN dependency_tree : n \in Elements(dependency_tree[k])

\* ------------------------------------------------------------ output properties
Indices(kind) == {k \in 1..Len(out) : out[k].kind = kind}

\* C4: without arguments and without a switch the listing has one line for each
\* port of the registry and no other line, and a line carries the core
\* dependencies of its port, not those of its features.
C4_ListsEveryPort ==
    (pc = "done" /\ command_arguments = <<>> /\ switches = {}) =>
        /\ Len(out) = Len(source_control_files)
        /\ \A k \in 1..Len(out) : out[k].kind = "line" /\ out[k].source \in PortNames
        /\ \A n \in PortNames :
              /\ Cardinality({k \in 1..Len(out) : out[k].source = n}) = 1
              /\ \A k \in 1..Len(out) : out[k].source = n => out[k].list = CoreDepends(n)

\* two ports were listed, one of them with a core and a feature dependency
C4_Witness ==
    /\ pc = "done" /\ command_arguments = <<>> /\ switches = {}
    /\ Len(out) >= 2
    /\ \E k \in 1..Len(source_control_files) :
          /\ source_control_files[k].depends # <<>>
          /\ \E f \in 1..Len(source_control_files[k].feature_paragraphs) :
                source_control_files[k].feature_paragraphs[f] # <<>>

\* C5: with arguments and a graph switch, every node and every edge of the graph
\* printed belongs to a port of the closure built from the arguments.
C5_GraphOfClosure ==
    (pc = "done" /\ Len(command_arguments) >= 1 /\ switches # {}) =>
        \A k \in 1..Len(out) :
            out[k].kind \in {"node", "edge", "Node", "Link"} =>
                \E n \in DOMAIN dependency_tree :
                    out[k].source \in {n, replace_dashes_with_underscore(n)}

\* C6: in plain-text mode the lines are printed in ascending order of the port
\* names, with arguments and without.
C6_PlainAscending ==
    switches = {} =>
        \A i, j \in 1..Len(out) : i < j => StringLess(out[i].source, out[j].source)

HasDepends(scf) == scf.depends # <<>>
PortsWithDepends == SelectSeq(source_control_files, HasDepends)
NoDash(name) == \A k \in 1..Len(name) : name[k] # Dash
Underscored(name, text) ==
    /\ Len(text) = Len(name)
    /\ \A k \in 1..Len(name) :
          text[k] = IF name[k] = Dash THEN Underscore ELSE name[k]

\* where the node statement of the j-th port with dependencies stands in the output
RECURSIVE NodePosition(_, _)
NodePosition(ports, j) ==
    IF j = 1 THEN 2
    ELSE NodePosition(ports, j - 1) + 1 + Len(ports[j - 1].depends)

RECURSIVE TotalDepends(_)
TotalDepends(ports) ==
    IF ports = <<>> THEN 0 ELSE Len(Head(ports).depends) + TotalDepends(Tail(ports))

DotPrinted == pc = "done" /\ OPTION_DOT \in switches

\* C7: in the dot graph a port without core dependencies has no statement and is
\* counted in the one trailing statement; a port with core dependencies has one
\* node statement followed by one edge statement per dependency, port ->
\* dependency, every '-' of both names replaced by '_'; the node statements and
\* the count add up to the number of ports.
C7_DotStatements ==
    DotPrinted =>
        /\ out[1].kind = "digraph"
        /\ Indices("empty") = {Len(out)}
        /\ out[Len(out)].count =
              Cardinality({k \in 1..Len(source_control_files) :
                              source_control_files[k].depends = <<>>})
        /\ Cardinality(Indices("node")) = Len(PortsWithDepends)
        /\ Cardinality(Indices("edge")) = TotalDepends(PortsWithDepends)
        /\ Cardinality(Indices("node")) + out[Len(out)].count = Len(source_control_files)
        /\ Len(out) = 2 + Cardinality(Indices("node")) + Cardinality(Indices("edge"))
        /\ \A j \in 1..Len(PortsWithDepends) :
              LET port == PortsWithDepends[j]
                  at == NodePosition(PortsWithDepends, j) IN
              /\ out[at].kind = "node"
              /\ Underscored(port.name, out[at].source)
              /\ \A d \in 1..Len(port.depends) :
                    /\ out[at + d].kind = "edge"
                    /\ Underscored(port.name, out[at + d].source)
                    /\ Underscored(port.depends[d], out[at + d].target)
        /\ \A k \in 1..Len(out) : NoDash(out[k].source) /\ NoDash(out[k].target)

\* a port without dependencies was counted, and a name with a dash was printed
C7_Witness ==
    /\ DotPrinted
    /\ out[Len(out)].count >= 1
    /\ \E k \in 1..Len(source_control_files) :
          /\ source_control_files[k].depends # <<>>
          /\ ~NoDash(source_control_files[k].name)
    /\ \E k \in Indices("edge") : Underscore \in Elements(out[k].target)

RECURSIVE OccurrencesInFeatures(_, _)
OccurrencesInFeatures(feature_paragraphs, n) ==
    IF feature_paragraphs = <<>> THEN 0
    ELSE Occurrences(Head(feature_paragraphs), n)
            + OccurrencesInFeatures(Tail(feature_paragraphs), n)

IsDgmlNode(statement) == statement.kind = "Node"
DgmlPrinted == pc = "done" /\ switches = {OPTION_DGML}

\* C8: in the dgml graph there is one node element per port, under its own name,
\* also for a port without dependencies; one link element per core dependency
\* and one per dependency of a feature, from the port to the dependency; every
\* node element stands before every link element.
C8_DgmlElements ==
    DgmlPrinted =>
        /\ LET nodes == SelectSeq(out, IsDgmlNode) IN
           /\ Len(nodes) = Len(source_control_files)
           /\ \A k \in 1..Len(nodes) : nodes[k].source = source_control_files[k].name
        /\ \A k \in Indices("Link") : out[k].source \in PortNames
        /\ \A k \in 1..Len(source_control_files) : \A t \in Names :
              LET port == source_control_files[k] IN
              Cardinality({l \in Indices("Link") :
                              out[l].source = port.name /\ out[l].target = t})
                 = Occurrences(port.depends, t)
                      + OccurrencesInFeatures(port.feature_paragraphs, t)
        /\ \A i \in Indices("Node") : \A j \in Indices("Link") : i < j
        /\ \A i \in Indices("Node") : \A a \in Indices("Nodes") : \A b \in Indices("/Nodes") :
              a < i /\ i < b
        /\ \A j \in Indices("Link") : \A a \in Indices("Links") : \A b \in Indices("/Links") :
              a < j /\ j < b

\* a port with a core and a feature dependency and a port without dependencies
\* were printed, and a link leads to a name that has no node
C8_Witness ==
    /\ DgmlPrinted
    /\ \E k \in 1..Len(source_control_files) :
          /\ source_control_files[k].depends # <<>>
          /\ \E f \in 1..Len(source_control_files[k].feature_paragraphs) :
                source_control_files[k].feature_paragraphs[f] # <<>>
    /\ \E k \in 1..Len(source_control_files) : source_control_files[k].depends = <<>>
    /\ \E l \in Indices("Link") : out[l].target \in AbsentNames
====
